---- MODULE Spec2Model ----
(***************************************************************************)
(* Model of main.py, the Google Calendar data extractor: the text signal   *)
(* extraction (extract_emails, extract_phone_numbers), the event           *)
(* normalisation (parse_event_data), the export ordering (export_to_excel) *)
(* and the control flow and exit codes of main.                            *)
(*                                                                         *)
(* A Python str is a sequence of one-character strings; '' is <<>>.        *)
(* A Python object that may be None is a record with a type field, None    *)
(* being [type |-> "NoneType"].  A dict is a record whose DOMAIN is the    *)
(* set of keys present; {} is the record with no field, <<>>.              *)
(***************************************************************************)
EXTENDS Integers, Sequences, FiniteSets, TLC

VARIABLES
    pc,            \* main: where the run is
    argv,          \* main: the command line
    args,          \* main: the parsed arguments
    exit_code,     \* main: the status the process ended with, None while it runs
    message,       \* main: what the last message printed was about
    service,       \* main: the calendar service, None before authentication
    events,        \* main: the raw events fetched
    parsed_events, \* parse_event_data: the rows built so far
    all_emails,    \* main: the unique email addresses of the summary
    all_phones,    \* main: the unique phone numbers of the summary
    df,            \* export_to_excel: the sorted rows
    file,          \* export_to_excel: the output file, None while there is none
    text,          \* SpecText: the argument given to the extraction functions
    called,        \* SpecText: which extraction function has been applied
    result         \* SpecText: what that function returned

mainVars == <<pc, argv, args, exit_code, message, service, events, parsed_events,
              all_emails, all_phones, df, file>>

textVars == <<text, called, result>>

vars == <<pc, argv, args, exit_code, message, service, events, parsed_events,
          all_emails, all_phones, df, file, text, called, result>>

----------------------------------------------------------------------------
(* Bounds *)

\* the number of chunks a text is put together from
MaxChunks == 3

\* the number of events a fetch returns at most
MaxEvents == 2

----------------------------------------------------------------------------
(* Characters and character classes of the regular expressions *)

Digit == {"0", "1", "2", "3", "4", "5", "6", "7", "8", "9"}

Upper == {"A", "B", "C", "D", "E", "F", "G", "H", "I", "J", "K", "L", "M",
          "N", "O", "P", "Q", "R", "S", "T", "U", "V", "W", "X", "Y", "Z"}

Lower == {"a", "b", "c", "d", "e", "f", "g", "h", "i", "j", "k", "l", "m",
          "n", "o", "p", "q", "r", "s", "t", "u", "v", "w", "x", "y", "z"}

\* \s
Whitespace == {" ", "\t", "\n", "\r", "\f"}

\* \w, the characters that make a \b boundary
WordChar == Upper \cup Lower \cup Digit \cup {"_"}

\* [\s.-]
PhoneSep == Whitespace \cup {".", "-"}

\* [A-Za-z0-9._%+-]
EmailLocal == Upper \cup Lower \cup Digit \cup {".", "_", "%", "+", "-"}

\* [A-Za-z0-9.-]
EmailDomain == Upper \cup Lower \cup Digit \cup {".", "-"}

\* [A-Z|a-z]: inside a character class the bar is a literal character
EmailLabel == Upper \cup Lower \cup {"|"}

----------------------------------------------------------------------------
(* Python's None and truthiness *)

None == [type |-> "NoneType"]

IsNone(x) == x = None

\* a str where None may stand as well
Str(s) == [type |-> "str", value |-> s]

\* not text
NoText(t) == IF IsNone(t) THEN TRUE ELSE t.value = <<>>

----------------------------------------------------------------------------
(* The regular expression engine of re: a pattern is a sequence of items,  *)
(* each a greedy repetition {min,max} of a character class (unbounded when *)
(* max = -1) or a \b assertion; matching backtracks from the longest       *)
(* repetition down, leftmost item first.                                   *)

Rep(cls, min, max) == [kind |-> "rep", cls |-> cls, min |-> min, max |-> max]

Lit(c) == Rep({c}, 1, 1)

Opt(cls) == Rep(cls, 0, 1)

WordBoundary == [kind |-> "wb", cls |-> {}, min |-> 0, max |-> 0]

\* \b at position pos (between pos-1 and pos)
IsWordBoundary(s, pos) ==
    LET before == pos > 1 /\ pos - 1 <= Len(s) /\ s[pos - 1] \in WordChar
        after  == pos >= 1 /\ pos <= Len(s) /\ s[pos] \in WordChar
    IN  before # after

\* how many consecutive characters from pos are in cls, at most max
RECURSIVE RunLen(_, _, _, _)
RunLen(s, pos, cls, max) ==
    IF max = 0 \/ pos > Len(s) THEN 0
    ELSE IF s[pos] \in cls THEN 1 + RunLen(s, pos + 1, cls, max - 1)
    ELSE 0

\* the position after the match of items k.. of pat at pos, 0 when none
RECURSIVE MatchFrom(_, _, _, _)
RECURSIVE TryCount(_, _, _, _, _)
MatchFrom(s, pos, pat, k) ==
    IF k > Len(pat) THEN pos
    ELSE IF pat[k].kind = "wb"
         THEN IF IsWordBoundary(s, pos) THEN MatchFrom(s, pos, pat, k + 1) ELSE 0
         ELSE TryCount(s, pos, pat, k, RunLen(s, pos, pat[k].cls, pat[k].max))

TryCount(s, pos, pat, k, c) ==
    IF c < pat[k].min THEN 0
    ELSE LET e == MatchFrom(s, pos + c, pat, k + 1)
         IN  IF e # 0 THEN e ELSE TryCount(s, pos, pat, k, c - 1)

\* re.findall(pat, s): the non-overlapping matches, left to right
RECURSIVE FindAllFrom(_, _, _)
FindAllFrom(pat, s, i) ==
    IF i > Len(s) THEN <<>>
    ELSE LET e == MatchFrom(s, i, pat, 1)
         IN  IF e > i THEN <<SubSeq(s, i, e - 1)>> \o FindAllFrom(pat, s, e)
             ELSE FindAllFrom(pat, s, i + 1)

findall(pat, s) == FindAllFrom(pat, s, 1)

\* re.sub(r'[^\d+]', '', num)
RECURSIVE StripNonPhone(_)
StripNonPhone(num) ==
    IF num = <<>> THEN <<>>
    ELSE IF Head(num) \in Digit \cup {"+"}
         THEN <<Head(num)>> \o StripNonPhone(Tail(num))
         ELSE StripNonPhone(Tail(num))

----------------------------------------------------------------------------
(* extract_emails *)

email_pattern ==
    << WordBoundary, Rep(EmailLocal, 1, -1), Lit("@"), Rep(EmailDomain, 1, -1),
       Lit("."), Rep(EmailLabel, 2, -1), WordBoundary >>

extract_emails(t) ==
    IF NoText(t) THEN <<>>
    ELSE findall(email_pattern, t.value)

----------------------------------------------------------------------------
(* extract_phone_numbers *)

phone_patterns ==
    << \* US format
       << Opt({"+"}), Opt({"1"}), Rep(Whitespace, 0, -1), Opt({"("}),
          Rep(Digit, 3, 3), Opt({")"}), Opt(PhoneSep), Rep(Digit, 3, 3),
          Opt(PhoneSep), Rep(Digit, 4, 4) >>,
       \* International
       << Opt({"+"}), Rep(Digit, 1, 3), Opt(PhoneSep), Rep(Digit, 1, 4),
          Opt(PhoneSep), Rep(Digit, 1, 4), Opt(PhoneSep), Rep(Digit, 1, 9) >>,
       \* (xxx) xxx-xxxx
       << Lit("("), Rep(Digit, 3, 3), Lit(")"), Rep(Whitespace, 0, -1),
          Rep(Digit, 3, 3), Lit("-"), Rep(Digit, 4, 4) >>,
       \* xxx-xxx-xxxx
       << Rep(Digit, 3, 3), Lit("-"), Rep(Digit, 3, 3), Lit("-"),
          Rep(Digit, 4, 4) >> >>

\* the first loop: the matches of the patterns p.., concatenated
RECURSIVE AllMatches(_, _)
AllMatches(t, p) ==
    IF p > Len(phone_patterns) THEN <<>>
    ELSE findall(phone_patterns[p], t) \o AllMatches(t, p + 1)

InSeq(x, s) == \E i \in 1..Len(s) : s[i] = x

\* the second loop, from candidate i on, cleaned_numbers being acc
RECURSIVE CleanLoop(_, _, _)
CleanLoop(nums, i, acc) ==
    IF i > Len(nums) THEN acc
    ELSE LET num == nums[i]
             cleaned == StripNonPhone(num)
         IN  IF Len(cleaned) >= 10 /\ ~InSeq(cleaned, acc)
             THEN CleanLoop(nums, i + 1, Append(acc, num))
             ELSE CleanLoop(nums, i + 1, acc)

extract_phone_numbers(t) ==
    IF NoText(t) THEN <<>>
    ELSE CleanLoop(AllMatches(t.value, 1), 1, <<>>)

----------------------------------------------------------------------------
(* str and dict operations *)

\* d.get(k, default)
Get(d, k, default) == IF k \in DOMAIN d THEN d[k] ELSE default

\* the empty dict {}
EmptyDict == <<>>

\* sep.join(parts)
RECURSIVE Join(_, _)
Join(sep, parts) ==
    IF parts = <<>> THEN <<>>
    ELSE IF Len(parts) = 1 THEN parts[1]
    ELSE parts[1] \o sep \o Join(sep, Tail(parts))

\* sep occurs in s at position i
OccursAt(s, sep, i) ==
    /\ i + Len(sep) - 1 <= Len(s)
    /\ \A k \in 1..Len(sep) : s[i + k - 1] = sep[k]

\* s.split(sep) from position i on, part being the characters read since the
\* last separator
RECURSIVE SplitFrom(_, _, _, _)
SplitFrom(s, sep, i, part) ==
    IF i > Len(s) THEN <<part>>
    ELSE IF OccursAt(s, sep, i)
         THEN <<part>> \o SplitFrom(s, sep, i + Len(sep), <<>>)
         ELSE SplitFrom(s, sep, i + 1, Append(part, s[i]))

Split(s, sep) == SplitFrom(s, sep, 1, <<>>)

\* s.replace(c, r) for a one-character c
RECURSIVE Replace(_, _, _)
Replace(s, c, r) ==
    IF s = <<>> THEN <<>>
    ELSE (IF Head(s) = c THEN r ELSE <<Head(s)>>) \o Replace(Tail(s), c, r)

\* filter(None, parts): the non-empty strings
NonEmpty(parts) == SelectSeq(parts, LAMBDA x : x # <<>>)

\* the elements of a list, as a set
Elems(s) == { s[i] : i \in 1..Len(s) }

\* list(set(...)): the elements of S in any order
Orderings(S) ==
    { f \in [1..Cardinality(S) -> S] : \A i, j \in 1..Cardinality(S) : i # j => f[i] # f[j] }

Semicolon == <<";", " ">>

----------------------------------------------------------------------------
(* datetime: strptime('%Y-%m-%d'), fromisoformat, subtraction *)

DigitValue(c) == CHOOSE n \in 0..9 : <<"0", "1", "2", "3", "4", "5", "6", "7", "8", "9">>[n + 1] = c

AllDigits(s) == \A i \in 1..Len(s) : s[i] \in Digit

\* int(s) of a digit string
RECURSIVE Number(_)
Number(ds) ==
    IF ds = <<>> THEN 0
    ELSE 10 * Number(SubSeq(ds, 1, Len(ds) - 1)) + DigitValue(ds[Len(ds)])

IsLeap(y) == (y % 4 = 0 /\ y % 100 # 0) \/ y % 400 = 0

DaysInMonth(y, m) ==
    IF m = 2 THEN (IF IsLeap(y) THEN 29 ELSE 28)
    ELSE IF m \in {4, 6, 9, 11} THEN 30 ELSE 31

ValidDate(y, m, d) == y \in 1..9999 /\ m \in 1..12 /\ d \in 1..DaysInMonth(y, m)

\* date.toordinal(): the days since 0001-01-01, that day being 1
Ordinal(y, m, d) ==
    LET yy == y - 1
        before == LET RECURSIVE Sum(_)
                      Sum(k) == IF k = 0 THEN 0 ELSE Sum(k - 1) + DaysInMonth(y, k)
                  IN  Sum(m - 1)
    IN  yy * 365 + (yy \div 4) - (yy \div 100) + (yy \div 400) + before + d

\* what a failed parse raises
ValueError == [type |-> "ValueError"]

TypeError == [type |-> "TypeError"]

IsException(x) == x.type \in {"ValueError", "TypeError"}

\* a datetime; aware tells whether it carries a UTC offset (in seconds)
DateTime(y, mo, d, h, mi, sec, aware, offset) ==
    [type |-> "datetime", year |-> y, month |-> mo, day |-> d,
     hour |-> h, minute |-> mi, second |-> sec, aware |-> aware, offset |-> offset]

\* datetime.strptime(s, '%Y-%m-%d'): four digits, then month and day of one or
\* two digits, the whole string
strptime(s) ==
    LET parts == Split(s, <<"-">>)
    IN  IF /\ Len(parts) = 3
           /\ Len(parts[1]) = 4 /\ AllDigits(parts[1])
           /\ Len(parts[2]) \in 1..2 /\ AllDigits(parts[2])
           /\ Len(parts[3]) \in 1..2 /\ AllDigits(parts[3])
           /\ ValidDate(Number(parts[1]), Number(parts[2]), Number(parts[3]))
        THEN DateTime(Number(parts[1]), Number(parts[2]), Number(parts[3]),
                      0, 0, 0, FALSE, 0)
        ELSE ValueError

\* the date part YYYY-MM-DD of an ISO string
IsoDateOk(s) ==
    /\ Len(s) = 10 /\ s[5] = "-" /\ s[8] = "-"
    /\ AllDigits(SubSeq(s, 1, 4)) /\ AllDigits(SubSeq(s, 6, 7)) /\ AllDigits(SubSeq(s, 9, 10))
    /\ ValidDate(Number(SubSeq(s, 1, 4)), Number(SubSeq(s, 6, 7)), Number(SubSeq(s, 9, 10)))

\* the time part HH:MM:SS of an ISO string
IsoTimeOk(s) ==
    /\ Len(s) = 8 /\ s[3] = ":" /\ s[6] = ":"
    /\ AllDigits(SubSeq(s, 1, 2)) /\ AllDigits(SubSeq(s, 4, 5)) /\ AllDigits(SubSeq(s, 7, 8))
    /\ Number(SubSeq(s, 1, 2)) < 24 /\ Number(SubSeq(s, 4, 5)) < 60 /\ Number(SubSeq(s, 7, 8)) < 60

\* the UTC offset +HH:MM or -HH:MM of an ISO string
IsoOffsetOk(s) ==
    /\ Len(s) = 6 /\ s[1] \in {"+", "-"} /\ s[4] = ":"
    /\ AllDigits(SubSeq(s, 2, 3)) /\ AllDigits(SubSeq(s, 5, 6))
    /\ Number(SubSeq(s, 2, 3)) < 24 /\ Number(SubSeq(s, 5, 6)) < 60

IsoOffset(s) ==
    (IF s[1] = "-" THEN -1 ELSE 1)
        * (Number(SubSeq(s, 2, 3)) * 3600 + Number(SubSeq(s, 5, 6)) * 60)

\* datetime.fromisoformat(s) on the forms YYYY-MM-DD, YYYY-MM-DDTHH:MM:SS and
\* YYYY-MM-DDTHH:MM:SS+HH:MM (any one character may separate date and time);
\* every other string of the inputs is one no form of the function reads
fromisoformat(s) ==
    LET y  == Number(SubSeq(s, 1, 4))
        mo == Number(SubSeq(s, 6, 7))
        d  == Number(SubSeq(s, 9, 10))
        h  == Number(SubSeq(s, 12, 13))
        mi == Number(SubSeq(s, 15, 16))
        sec == Number(SubSeq(s, 18, 19))
    IN  IF Len(s) = 10 /\ IsoDateOk(s)
        THEN DateTime(y, mo, d, 0, 0, 0, FALSE, 0)
        ELSE IF Len(s) = 19 /\ IsoDateOk(SubSeq(s, 1, 10)) /\ IsoTimeOk(SubSeq(s, 12, 19))
        THEN DateTime(y, mo, d, h, mi, sec, FALSE, 0)
        ELSE IF /\ Len(s) = 25 /\ IsoDateOk(SubSeq(s, 1, 10))
                /\ IsoTimeOk(SubSeq(s, 12, 19)) /\ IsoOffsetOk(SubSeq(s, 20, 25))
        THEN DateTime(y, mo, d, h, mi, sec, TRUE, IsoOffset(SubSeq(s, 20, 25)))
        ELSE ValueError

\* the seconds of the day of dt, brought to UTC when dt carries an offset
DaySeconds(dt) == dt.hour * 3600 + dt.minute * 60 + dt.second - dt.offset

\* (b - a).total_seconds(): the days and the seconds between the two; the
\* difference of two naive datetimes is that of their wall clocks, of two
\* aware ones that of their instants, and a naive and an aware one cannot be
\* subtracted
total_seconds(b, a) ==
    IF a.aware # b.aware THEN TypeError
    ELSE [type |-> "int",
          value |-> (Ordinal(b.year, b.month, b.day) - Ordinal(a.year, a.month, a.day)) * 86400
                        + DaySeconds(b) - DaySeconds(a)]

\* x / 3600 as a float: the fraction num/den
Hours(seconds) == [type |-> "float", num |-> seconds, den |-> 3600]

\* dt.date()
DateOf(dt) == [type |-> "date", year |-> dt.year, month |-> dt.month, day |-> dt.day]

\* dt.time(): the time of day, without the offset
TimeOf(dt) == [type |-> "time", hour |-> dt.hour, minute |-> dt.minute, second |-> dt.second]

----------------------------------------------------------------------------
(* parse_event_data: one raw event to one row *)

\* ' '.join(filter(None, [summary, description, location]))
combined_text(event) ==
    Join(<<" ">>, NonEmpty(<< Get(event, "summary", <<>>),
                              Get(event, "description", <<>>),
                              Get(event, "location", <<>>) >>))

\* [att.get(key, '') for att in atts]
Column(atts, key) == [k \in 1..Len(atts) |-> Get(atts[k], key, <<>>)]

\* set(attendee_emails + text_emails)
all_emails_set(event) ==
    Elems(Column(Get(event, "attendees", <<>>), "email"))
        \cup Elems(extract_emails(Str(combined_text(event))))

\* start.get('dateTime', start.get('date', ''))
bound_string(event, key) ==
    LET bound == Get(event, key, EmptyDict)
    IN  Get(bound, "dateTime", Get(bound, "date", <<>>))

\* the try block: both bounds as date-times when the start holds a 'T', as
\* calendar dates otherwise, and no bound at all when either parse raises
parse_bounds(start_time, end_time) ==
    IF "T" \in Elems(start_time)
    THEN LET start_dt == fromisoformat(Replace(start_time, "Z", <<"+", "0", "0", ":", "0", "0">>))
             end_dt == fromisoformat(Replace(end_time, "Z", <<"+", "0", "0", ":", "0", "0">>))
         IN  IF IsException(start_dt) \/ IsException(end_dt)
             THEN [start_dt |-> None, end_dt |-> None, all_day |-> FALSE]
             ELSE [start_dt |-> start_dt, end_dt |-> end_dt, all_day |-> FALSE]
    ELSE LET start_dt == strptime(start_time)
             end_dt == strptime(end_time)
         IN  IF IsException(start_dt) \/ IsException(end_dt)
             THEN [start_dt |-> None, end_dt |-> None, all_day |-> FALSE]
             ELSE [start_dt |-> start_dt, end_dt |-> end_dt, all_day |-> TRUE]

bounds_of(event) == parse_bounds(bound_string(event, "start"), bound_string(event, "end"))

\* duration_of with a negative duration clamped to zero
duration_clamped(b) ==
    IF ~IsNone(b.start_dt) /\ ~IsNone(b.end_dt)
    THEN LET seconds == total_seconds(b.end_dt, b.start_dt)
         IN  IF IsException(seconds) THEN seconds
             ELSE Hours(IF seconds.value < 0 THEN 0 ELSE seconds.value)
    ELSE None

\* the duration in hours: None, the hours, or the TypeError the subtraction raises
duration_of(b) ==
    IF ~IsNone(b.start_dt) /\ ~IsNone(b.end_dt)
    THEN LET seconds == total_seconds(b.end_dt, b.start_dt)
         IN  IF IsException(seconds) THEN seconds ELSE Hours(seconds.value)
    ELSE None

\* [ep.get('uri', '') for ep in entry_points if ep.get('entryPointType') == 'video']
meeting_links(event) ==
    LET entry_points == Get(Get(event, "conferenceData", EmptyDict), "entryPoints", <<>>)
        video == SelectSeq(entry_points,
                           LAMBDA ep : "entryPointType" \in DOMAIN ep /\ ep.entryPointType = <<"v", "i", "d", "e", "o">>)
    IN  Column(video, "uri")

\* reminders_str without the default of the get: str(None) for a missing key
reminders_str_no_default(event) ==
    IF "reminders" \notin DOMAIN event THEN <<"N", "o", "n", "e">>
    ELSE IF event.reminders.useDefault THEN <<"{", "'", "u", "s", "e", "D", "e", "f", "a", "u", "l", "t", "'", ":", " ", "T", "r", "u", "e", "}">>
    ELSE <<"{", "'", "u", "s", "e", "D", "e", "f", "a", "u", "l", "t", "'", ":", " ", "F", "a", "l", "s", "e", "}">>

\* str(event.get('reminders', {}))
reminders_str(event) ==
    LET reminders == Get(event, "reminders", EmptyDict)
    IN  IF DOMAIN reminders = {} THEN <<"{", "}">>
        ELSE IF reminders.useDefault THEN <<"{", "'", "u", "s", "e", "D", "e", "f", "a", "u", "l", "t", "'", ":", " ", "T", "r", "u", "e", "}">>
        ELSE <<"{", "'", "u", "s", "e", "D", "e", "f", "a", "u", "l", "t", "'", ":", " ", "F", "a", "l", "s", "e", "}">>

\* the row built for event, all_emails_list being list(set(...)) in the order
\* the set gave
parsed_event(event, all_emails_list) ==
    LET attendees_list == Get(event, "attendees", <<>>)
        b == bounds_of(event)
    IN  [ event_id |-> Get(event, "id", <<>>),
          summary |-> Get(event, "summary", <<>>),
          description |-> Get(event, "description", <<>>),
          location |-> Get(event, "location", <<>>),
          start_date |-> IF ~IsNone(b.start_dt) THEN DateOf(b.start_dt) ELSE None,
          start_time |-> IF ~IsNone(b.start_dt) /\ ~b.all_day THEN TimeOf(b.start_dt) ELSE None,
          end_date |-> IF ~IsNone(b.end_dt) THEN DateOf(b.end_dt) ELSE None,
          end_time |-> IF ~IsNone(b.end_dt) /\ ~b.all_day THEN TimeOf(b.end_dt) ELSE None,
          all_day |-> b.all_day,
          duration_hours |-> duration_of(b),
          status |-> Get(event, "status", <<>>),
          visibility |-> Get(event, "visibility", <<"d", "e", "f", "a", "u", "l", "t">>),
          organizer_email |-> Get(Get(event, "organizer", EmptyDict), "email", <<>>),
          organizer_name |-> Get(Get(event, "organizer", EmptyDict), "displayName", <<>>),
          creator_email |-> Get(Get(event, "creator", EmptyDict), "email", <<>>),
          creator_name |-> Get(Get(event, "creator", EmptyDict), "displayName", <<>>),
          attendee_emails |-> Join(Semicolon, Column(attendees_list, "email")),
          attendee_names |-> Join(Semicolon, Column(attendees_list, "displayName")),
          attendee_statuses |-> Join(Semicolon, Column(attendees_list, "responseStatus")),
          attendee_count |-> Len(attendees_list),
          all_extracted_emails |-> Join(Semicolon, all_emails_list),
          extracted_phone_numbers |->
              Join(Semicolon, extract_phone_numbers(Str(combined_text(event)))),
          recurring_event_id |-> Get(event, "recurringEventId", <<>>),
          is_recurring |-> "recurringEventId" \in DOMAIN event,
          html_link |-> Get(event, "htmlLink", <<>>),
          conference_type |->
              Get(Get(Get(event, "conferenceData", EmptyDict), "conferenceSolution", EmptyDict),
                  "name", <<>>),
          meeting_links |-> Join(Semicolon, meeting_links(event)),
          created |-> Get(event, "created", <<>>),
          updated |-> Get(event, "updated", <<>>),
          reminders |-> reminders_str(event),
          attachments |-> Join(Semicolon, Column(Get(event, "attachments", <<>>), "title")),
          color_id |-> Get(event, "colorId", <<>>),
          transparency |-> Get(event, "transparency", <<"o", "p", "a", "q", "u", "e">>) ]

\* the event makes parse_event_data raise: the subtraction of line 216 is
\* outside the try block
raises(event) == IsException(duration_of(bounds_of(event)))

----------------------------------------------------------------------------
(* The raw events the calendar may hand over:                               *)
(*   e1  {'id': 'e1'}                                                      *)
(*   e2  summary 'Call 555-123-4567', description 'cc b@y.co', location    *)
(*       'HQ', start.date '2024-03-01', end.date '2024-03-02', one         *)
(*       attendee a@x.co, and every other field                            *)
(*   e3  description 'mail a@x.co', start.dateTime '2024-03-01T09:00:00Z', *)
(*       end.dateTime '2024-03-01T10:30:00Z', attendees [{displayName},    *)
(*       {email: a@x.co}], recurringEventId, conferenceData                *)
(*   e4  start.dateTime '2024-03-01T10:30:00Z', end.dateTime               *)
(*       '2024-03-01T09:00:00Z', attendees [{displayName}]                 *)
(*   e5  start.dateTime '2024-03-01T09:00:00Z', end.dateTime               *)
(*       '2024-03-01T10:00:00'                                             *)
(*   e6  summary '+123456789', start.date 'not-a-date', end.date           *)
(*       '2024-03-02'                                                      *)
(*   e7  start.date '2024-03-02', end.date '2024-03-03'                    *)
(*   e8  start.dateTime '2024-03-01T10:00:00', end.date '2024-03-02'       *)
(*   e9  start.date '2024-03-01', end.dateTime '2024-03-01T10:30:00Z'      *)
(*   e10 start.dateTime '2024-03-01T09:00:00+02:00', end.dateTime          *)
(*       '2024-03-01T10:30:00Z'                                            *)
(*   e11 start.date '2024-2-29', end.date '2024-03-01'                     *)

EventPool ==
    { \* nothing but an id
      [ id |-> <<"e", "1">> ],
      \* an all-day event with every field, a phone number and an email in the text
      [ id |-> <<"e", "2">>, summary |-> <<"C", "a", "l", "l", " ", "5", "5", "5", "-", "1", "2", "3", "-", "4", "5", "6", "7">>, description |-> <<"c", "c", " ", "b", "@", "y", ".", "c", "o">>,
        location |-> <<"H", "Q">>, start |-> [date |-> <<"2", "0", "2", "4", "-", "0", "3", "-", "0", "1">>], end |-> [date |-> <<"2", "0", "2", "4", "-", "0", "3", "-", "0", "2">>],
        status |-> <<"c", "o", "n", "f", "i", "r", "m", "e", "d">>, visibility |-> <<"p", "r", "i", "v", "a", "t", "e">>,
        organizer |-> [email |-> <<"a", "@", "x", ".", "c", "o">>, displayName |-> <<"A", "l">>],
        creator |-> [email |-> <<"a", "@", "x", ".", "c", "o">>],
        attendees |-> << [email |-> <<"a", "@", "x", ".", "c", "o">>, displayName |-> <<"A", "l">>, responseStatus |-> <<"a", "c", "c", "e", "p", "t", "e", "d">>] >>,
        htmlLink |-> <<"h", "t", "t", "p", ":", "/", "/", "c", "/", "e", "2">>, created |-> <<"2", "0", "2", "4", "-", "0", "2", "-", "0", "1", "T", "0", "0", ":", "0", "0", ":", "0", "0", "Z">>,
        updated |-> <<"2", "0", "2", "4", "-", "0", "2", "-", "0", "2", "T", "0", "0", ":", "0", "0", ":", "0", "0", "Z">>, reminders |-> [useDefault |-> TRUE],
        attachments |-> << [title |-> <<"a", "g", "e", "n", "d", "a">>], [fileUrl |-> <<"h", "t", "t", "p", ":", "/", "/", "f">>] >>,
        colorId |-> <<"5">>, transparency |-> <<"t", "r", "a", "n", "s", "p", "a", "r", "e", "n", "t">> ],
      \* a timed event in UTC; one attendee has no email, the other has the
      \* address the description repeats; recurring, with a video entry point
      [ id |-> <<"e", "3">>, description |-> <<"m", "a", "i", "l", " ", "a", "@", "x", ".", "c", "o">>,
        start |-> [dateTime |-> <<"2", "0", "2", "4", "-", "0", "3", "-", "0", "1", "T", "0", "9", ":", "0", "0", ":", "0", "0", "Z">>],
        end |-> [dateTime |-> <<"2", "0", "2", "4", "-", "0", "3", "-", "0", "1", "T", "1", "0", ":", "3", "0", ":", "0", "0", "Z">>],
        attendees |-> << [displayName |-> <<"B", "o">>], [email |-> <<"a", "@", "x", ".", "c", "o">>] >>,
        recurringEventId |-> <<"r", "1">>,
        conferenceData |-> [ conferenceSolution |-> [name |-> <<"M", "e", "e", "t">>],
                             entryPoints |-> << [entryPointType |-> <<"v", "i", "d", "e", "o">>, uri |-> <<"h", "t", "t", "p", ":", "/", "/", "m">>],
                                                [entryPointType |-> <<"p", "h", "o", "n", "e">>, uri |-> <<"t", "e", "l", ":", "1">>],
                                                [uri |-> <<"s", "i", "p", ":", "1">>] >> ] ],
      \* the end precedes the start; the only attendee has no email
      [ id |-> <<"e", "4">>, start |-> [dateTime |-> <<"2", "0", "2", "4", "-", "0", "3", "-", "0", "1", "T", "1", "0", ":", "3", "0", ":", "0", "0", "Z">>],
        end |-> [dateTime |-> <<"2", "0", "2", "4", "-", "0", "3", "-", "0", "1", "T", "0", "9", ":", "0", "0", ":", "0", "0", "Z">>],
        attendees |-> << [displayName |-> <<"B", "o">>] >> ],
      \* the start carries 'Z', the end no offset
      [ id |-> <<"e", "5">>, start |-> [dateTime |-> <<"2", "0", "2", "4", "-", "0", "3", "-", "0", "1", "T", "0", "9", ":", "0", "0", ":", "0", "0", "Z">>],
        end |-> [dateTime |-> <<"2", "0", "2", "4", "-", "0", "3", "-", "0", "1", "T", "1", "0", ":", "0", "0", ":", "0", "0">>] ],
      \* a malformed start
      [ id |-> <<"e", "6">>, summary |-> <<"+", "1", "2", "3", "4", "5", "6", "7", "8", "9">>, start |-> [date |-> <<"n", "o", "t", "-", "a", "-", "d", "a", "t", "e">>],
        end |-> [date |-> <<"2", "0", "2", "4", "-", "0", "3", "-", "0", "2">>] ],
      \* a later all-day event
      [ id |-> <<"e", "7">>, start |-> [date |-> <<"2", "0", "2", "4", "-", "0", "3", "-", "0", "2">>], end |-> [date |-> <<"2", "0", "2", "4", "-", "0", "3", "-", "0", "3">>] ],
      \* a start with a time and no offset, a date-only end
      [ id |-> <<"e", "8">>, start |-> [dateTime |-> <<"2", "0", "2", "4", "-", "0", "3", "-", "0", "1", "T", "1", "0", ":", "0", "0", ":", "0", "0">>],
        end |-> [date |-> <<"2", "0", "2", "4", "-", "0", "3", "-", "0", "2">>] ],
      \* a date-only start, an end with a time
      [ id |-> <<"e", "9">>, start |-> [date |-> <<"2", "0", "2", "4", "-", "0", "3", "-", "0", "1">>],
        end |-> [dateTime |-> <<"2", "0", "2", "4", "-", "0", "3", "-", "0", "1", "T", "1", "0", ":", "3", "0", ":", "0", "0", "Z">>] ],
      \* an offset other than UTC against 'Z'
      [ id |-> <<"e", "1", "0">>, start |-> [dateTime |-> <<"2", "0", "2", "4", "-", "0", "3", "-", "0", "1", "T", "0", "9", ":", "0", "0", ":", "0", "0", "+", "0", "2", ":", "0", "0">>],
        end |-> [dateTime |-> <<"2", "0", "2", "4", "-", "0", "3", "-", "0", "1", "T", "1", "0", ":", "3", "0", ":", "0", "0", "Z">>] ],
      \* a leap day written with a one-digit month
      [ id |-> <<"e", "1", "1">>, start |-> [date |-> <<"2", "0", "2", "4", "-", "2", "-", "2", "9">>], end |-> [date |-> <<"2", "0", "2", "4", "-", "0", "3", "-", "0", "1">>] ] }

RECURSIVE EventLists(_)
EventLists(n) ==
    IF n = 0 THEN { <<>> }
    ELSE EventLists(n - 1) \cup { Append(l, e) : l \in EventLists(n - 1), e \in EventPool }

----------------------------------------------------------------------------
(* The texts the extraction functions are applied to: up to MaxChunks of   *)
(* the chunks '555-123-4567', '5551234567', '+123456789',                  *)
(* '(555) 123-4567', '+1', ' ', '-', '12', 'a@b.co', 'x@y.c|d', '@', '.',  *)
(* 'ab' and '|', one after the other, and None                             *)

Chunks ==
    { <<"5", "5", "5", "-", "1", "2", "3", "-", "4", "5", "6", "7">>,
      <<"5", "5", "5", "1", "2", "3", "4", "5", "6", "7">>,
      <<"+", "1", "2", "3", "4", "5", "6", "7", "8", "9">>,
      <<"(", "5", "5", "5", ")", " ", "1", "2", "3", "-", "4", "5", "6", "7">>,
      <<"+", "1">>, <<" ">>, <<"-">>, <<"1", "2">>,
      <<"a", "@", "b", ".", "c", "o">>,
      <<"x", "@", "y", ".", "c", "|", "d">>,
      <<"@">>, <<".">>, <<"a", "b">>, <<"|">> }

RECURSIVE Texts(_)
Texts(n) ==
    IF n = 0 THEN { <<>> }
    ELSE Texts(n - 1) \cup { t \o c : t \in Texts(n - 1), c \in Chunks }

TextInputs == { Str(t) : t \in Texts(MaxChunks) } \cup {None}

----------------------------------------------------------------------------
(* SpecText: the extraction functions applied to every text *)

InitText ==
    /\ text \in TextInputs
    /\ called = "none"
    /\ result = <<>>
    /\ pc = "parse_args"
    /\ argv = [help |-> FALSE]
    /\ args = None
    /\ exit_code = None
    /\ message = "none"
    /\ service = None
    /\ events = <<>>
    /\ parsed_events = <<>>
    /\ all_emails = {}
    /\ all_phones = {}
    /\ df = <<>>
    /\ file = None

CallExtractEmails ==
    /\ called = "none"
    /\ called' = "extract_emails"
    /\ result' = extract_emails(text)
    /\ UNCHANGED text
    /\ UNCHANGED mainVars

CallExtractPhoneNumbers ==
    /\ called = "none"
    /\ called' = "extract_phone_numbers"
    /\ result' = extract_phone_numbers(text)
    /\ UNCHANGED text
    /\ UNCHANGED mainVars

NextText == CallExtractEmails \/ CallExtractPhoneNumbers

SpecText == InitText /\ [][NextText]_vars

----------------------------------------------------------------------------
(* main: the command line *)

IntObj(n) == [type |-> "int", value |-> n]

\* int(s) reads an optional sign and digits
IntReadable(s) ==
    /\ s # <<>>
    /\ LET digits == IF s[1] \in {"+", "-"} THEN Tail(s) ELSE s
       IN  digits # <<>> /\ AllDigits(digits)

IntOf(s) ==
    IF s[1] = "-" THEN 0 - Number(Tail(s))
    ELSE IF s[1] = "+" THEN Number(Tail(s))
    ELSE Number(s)

\* the values --days may be given on the command line
DaysTokens == { <<"a", "b", "c">>, <<"0">>, <<"-", "3">>, <<"7">> }

\* the command lines: --help or not, --days with a value or not
CommandLines ==
    { [help |-> h] : h \in BOOLEAN }
        \cup { [help |-> h, days |-> d] : h \in BOOLEAN, d \in DaysTokens }

\* not args.days
NoDays(a) == IF IsNone(a.days) THEN TRUE ELSE a.days.value = 0

----------------------------------------------------------------------------
(* export_to_excel: the order of the rows *)

\* date a is before date b
DateBefore(a, b) ==
    \/ a.year < b.year
    \/ a.year = b.year /\ a.month < b.month
    \/ a.year = b.year /\ a.month = b.month /\ a.day < b.day

\* the orders sort_values('start_date', ascending=False) may give the rows in:
\* the rows with a date by descending date, then the rows without one in
\* their original order (na_position is 'last'); kind is the default
\* 'quicksort', which is not stable, so rows of equal date come in any order
SortOrders(rows) ==
    { p \in Orderings(1..Len(rows)) :
        \A i, j \in 1..Len(rows) :
            i < j =>
                LET a == rows[p[i]].start_date
                    b == rows[p[j]].start_date
                IN  /\ IsNone(a) => IsNone(b)
                    /\ (~IsNone(a) /\ ~IsNone(b)) => ~DateBefore(a, b)
                    /\ (IsNone(a) /\ IsNone(b)) => p[i] < p[j] }

\* the file ExcelWriter saves: the rows of the sheet, whether all their cells
\* were written, and whether the sheet was styled
Workbook(rows, cells, styled) ==
    [type |-> "xlsx", rows |-> rows, cells |-> cells, styled |-> styled]

----------------------------------------------------------------------------
(* Spec: a run of main *)

Init ==
    /\ pc = "parse_args"
    /\ argv \in CommandLines
    /\ args = None
    /\ exit_code = None
    /\ message = "none"
    /\ service = None
    /\ events = <<>>
    /\ parsed_events = <<>>
    /\ all_emails = {}
    /\ all_phones = {}
    /\ df = <<>>
    /\ file = None
    /\ text = None
    /\ called = "none"
    /\ result = <<>>

\* sys.exit(code) after printing what
Exit(code, what) ==
    /\ pc' = "exit"
    /\ exit_code' = IntObj(code)
    /\ message' = what

\* parser.parse_args(): --days is read with type=int, and argparse ends the
\* program with status 2 when the value is no integer
ParseArgs ==
    /\ pc = "parse_args"
    /\ IF "days" \in DOMAIN argv /\ ~IntReadable(argv.days)
       THEN Exit(2, "usage_error") /\ UNCHANGED args
       ELSE /\ args' = [help |-> argv.help,
                        days |-> IF "days" \in DOMAIN argv THEN IntObj(IntOf(argv.days)) ELSE None]
            /\ pc' = "check_args"
            /\ UNCHANGED <<exit_code, message>>
    /\ UNCHANGED <<argv, service, events, parsed_events, all_emails, all_phones, df, file>>
    /\ UNCHANGED textVars

\* if args.help or not args.days: show_help(); sys.exit(0 if args.help else 1)
ShowHelp ==
    /\ pc = "check_args"
    /\ args.help \/ NoDays(args)
    /\ Exit(IF args.help THEN 0 ELSE 1, "help")
    /\ UNCHANGED <<argv, args, service, events, parsed_events, all_emails, all_phones, df, file>>
    /\ UNCHANGED textVars

\* if args.days <= 0: sys.exit(1), and the run goes on otherwise
ValidateDays ==
    /\ pc = "check_args"
    /\ ~(args.help \/ NoDays(args))
    /\ IF args.days.value <= 0
       THEN Exit(1, "days_not_positive")
       ELSE pc' = "authenticate" /\ UNCHANGED <<exit_code, message>>
    /\ UNCHANGED <<argv, args, service, events, parsed_events, all_emails, all_phones, df, file>>
    /\ UNCHANGED textVars

\* authenticate_google_calendar() under try: the stored token is used when it
\* is valid, refreshed when it can be, and a new one is asked for otherwise,
\* which needs credentials.json (None is returned without it); loading,
\* refreshing, the login flow, saving and build may each raise
Authenticate ==
    /\ pc = "authenticate"
    /\ \E token_exists, valid, refreshable, credentials_json, raised \in BOOLEAN :
          LET have_valid == token_exists /\ valid
              can_refresh == token_exists /\ ~valid /\ refreshable
          IN  IF raised
              THEN Exit(1, "authentication_raised") /\ UNCHANGED service
              ELSE IF ~have_valid /\ ~can_refresh /\ ~credentials_json
              THEN Exit(1, "authentication_failed") /\ UNCHANGED service
              ELSE /\ service' = [type |-> "Resource"]
                   /\ pc' = "fetch"
                   /\ UNCHANGED <<exit_code, message>>
    /\ UNCHANGED <<argv, args, events, parsed_events, all_emails, all_phones, df, file>>
    /\ UNCHANGED textVars

\* get_calendar_events(service, args.days) under try: the pages of the
\* listing, one after the other, or the exception a request raised
Fetch ==
    /\ pc = "fetch"
    /\ \/ Exit(1, "fetch_raised") /\ UNCHANGED events
       \/ /\ events' \in EventLists(MaxEvents)
          /\ pc' = "check_events"
          /\ UNCHANGED <<exit_code, message>>
    /\ UNCHANGED <<argv, args, service, parsed_events, all_emails, all_phones, df, file>>
    /\ UNCHANGED textVars

\* if not events: sys.exit(0)
CheckEvents ==
    /\ pc = "check_events"
    /\ IF events = <<>>
       THEN Exit(0, "no_events")
       ELSE pc' = "parse" /\ UNCHANGED <<exit_code, message>>
    /\ UNCHANGED <<argv, args, service, events, parsed_events, all_emails, all_phones, df, file>>
    /\ UNCHANGED textVars

\* one turn of the loop of parse_event_data, under the try of main: the row
\* of the next event is appended, or the exception the event raises ends the
\* run
ParseEvent ==
    /\ pc = "parse"
    /\ Len(parsed_events) < Len(events)
    /\ LET event == events[Len(parsed_events) + 1]
       IN  IF raises(event)
           THEN Exit(1, "parse_raised") /\ UNCHANGED parsed_events
           ELSE /\ \E all_emails_list \in Orderings(all_emails_set(event)) :
                     parsed_events' = Append(parsed_events, parsed_event(event, all_emails_list))
                /\ UNCHANGED <<pc, exit_code, message>>
    /\ UNCHANGED <<argv, args, service, events, all_emails, all_phones, df, file>>
    /\ UNCHANGED textVars

\* the tokens of a joined field, none when the field is empty
Tokens(joined) == IF joined # <<>> THEN Elems(Split(joined, Semicolon)) ELSE {}

\* return parsed_events, and the summary statistics main prints
Summary ==
    /\ pc = "parse"
    /\ Len(parsed_events) = Len(events)
    /\ all_emails' = UNION { Tokens(parsed_events[k].all_extracted_emails) :
                                k \in 1..Len(parsed_events) }
    /\ all_phones' = UNION { Tokens(parsed_events[k].extracted_phone_numbers) :
                                k \in 1..Len(parsed_events) }
    /\ pc' = "export"
    /\ UNCHANGED <<argv, args, exit_code, message, service, events, parsed_events, df, file>>
    /\ UNCHANGED textVars

\* export_to_excel: pd.DataFrame(events_data).sort_values(...)
ExportSort ==
    /\ pc = "export"
    /\ \E p \in SortOrders(parsed_events) :
          df' = [k \in 1..Len(parsed_events) |-> parsed_events[p[k]]]
    /\ pc' = "open_writer"
    /\ UNCHANGED <<argv, args, exit_code, message, service, events, parsed_events,
                   all_emails, all_phones, file>>
    /\ UNCHANGED textVars

\* with pd.ExcelWriter(filename, engine='openpyxl') as writer: the writer opens
\* the destination, or raises when it cannot
OpenWriter ==
    /\ pc = "open_writer"
    /\ \/ Exit(1, "export_raised")
       \/ pc' = "to_excel" /\ UNCHANGED <<exit_code, message>>
    /\ UNCHANGED <<argv, args, service, events, parsed_events, all_emails, all_phones, df, file>>
    /\ UNCHANGED textVars

\* df.to_excel(writer, ...) inside the with block: the cells are written to
\* the sheet; when a cell raises, the with block is left through the writer's
\* __exit__, which saves the workbook as it is, and main reports the failure
ToExcel ==
    /\ pc = "to_excel"
    /\ \/ /\ file' = Workbook(Column(df, "event_id"), "partial", FALSE)
          /\ Exit(1, "export_raised")
       \/ /\ pc' = "style"
          /\ UNCHANGED <<file, exit_code, message>>
    /\ UNCHANGED <<argv, args, service, events, parsed_events, all_emails, all_phones, df>>
    /\ UNCHANGED textVars

\* the header format, the column widths and the filter, inside the with
\* block: an exception here leaves through __exit__ as well
Style ==
    /\ pc = "style"
    /\ \/ /\ file' = Workbook(Column(df, "event_id"), "all", FALSE)
          /\ Exit(1, "export_raised")
       \/ /\ pc' = "close_writer"
          /\ UNCHANGED <<file, exit_code, message>>
    /\ UNCHANGED <<argv, args, service, events, parsed_events, all_emails, all_phones, df>>
    /\ UNCHANGED textVars

\* the end of the with block saves the workbook, or raises when the
\* destination cannot be written; then main prints its last lines and returns
CloseWriter ==
    /\ pc = "close_writer"
    /\ \/ Exit(1, "export_raised") /\ UNCHANGED file
       \/ /\ file' = Workbook(Column(df, "event_id"), "all", TRUE)
          /\ Exit(0, "done")
    /\ UNCHANGED <<argv, args, service, events, parsed_events, all_emails, all_phones, df>>
    /\ UNCHANGED textVars

Next ==
    \/ ParseArgs
    \/ ShowHelp
    \/ ValidateDays
    \/ Authenticate
    \/ Fetch
    \/ CheckEvents
    \/ ParseEvent
    \/ Summary
    \/ ExportSort
    \/ OpenWriter
    \/ ToExcel
    \/ Style
    \/ CloseWriter

Spec == Init /\ [][Next]_vars

----------------------------------------------------------------------------
(* Properties of the extraction functions, under SpecText *)

DigitCount(s) == Len(SelectSeq(s, LAMBDA c : c \in Digit))

\* the first candidate among the concatenated matches with the normalized value of num
FirstWithKey(nums, num) ==
    nums[CHOOSE i \in 1..Len(nums) :
            /\ StripNonPhone(nums[i]) = StripNonPhone(num)
            /\ \A j \in 1..(i - 1) : StripNonPhone(nums[j]) # StripNonPhone(num)]

\* C2: the phone numbers returned hold no two entries with the same normalized
\* value (all but digits and '+' removed), and each entry is the original string
\* of the first match with its normalized value.
C2_NoDuplicateNormalized ==
    called = "extract_phone_numbers" =>
        /\ \A i, j \in 1..Len(result) :
              i # j => StripNonPhone(result[i]) # StripNonPhone(result[j])
        /\ \A i \in 1..Len(result) :
              /\ InSeq(result[i], AllMatches(text.value, 1))
              /\ result[i] = FirstWithKey(AllMatches(text.value, 1), result[i])

\* C3: every phone number returned holds at least 10 digit characters.
C3_AtLeastTenDigits ==
    called = "extract_phone_numbers" =>
        \A i \in 1..Len(result) : DigitCount(result[i]) >= 10

\* local-part@domain.label: one or more of [A-Za-z0-9._%+-], '@', one or more of
\* [A-Za-z0-9.-], '.', and a final label of two or more letters
EmailShaped(e) ==
    \E at, dot \in 1..Len(e) :
        /\ 1 < at /\ at + 1 < dot /\ dot + 2 <= Len(e)
        /\ e[at] = "@" /\ e[dot] = "."
        /\ \A k \in 1..(at - 1) : e[k] \in EmailLocal
        /\ \A k \in (at + 1)..(dot - 1) : e[k] \in EmailDomain
        /\ \A k \in (dot + 1)..Len(e) : e[k] \in Upper \cup Lower

\* C7: every string extract_emails returns is shaped local-part@domain.label with
\* an alphabetic final label of two or more characters, and a null or empty text
\* gives the empty sequence.
C7_EmailsWellFormed ==
    called = "extract_emails" =>
        /\ \A i \in 1..Len(result) : EmailShaped(result[i])
        /\ NoText(text) => result = <<>>

----------------------------------------------------------------------------
(* Properties of a run of main, under Spec *)

\* parse_event_data has returned its rows to main
Parsed ==
    \/ pc \in {"export", "open_writer", "to_excel", "style", "close_writer"}
    \/ pc = "exit" /\ message \in {"export_raised", "done"}

\* C1: parse_event_data never raises, and returns one row per raw event, in the
\* order of the events.
C1_ParseNeverRaises ==
    /\ message # "parse_raised"
    /\ Parsed =>
          /\ Len(parsed_events) = Len(events)
          /\ \A k \in 1..Len(events) : parsed_events[k].event_id = Get(events[k], "id", <<>>)

\* the distinct non-empty tokens of a joined field over all rows
DistinctTokens(field) ==
    { t \in UNION { Elems(Split(parsed_events[k][field], Semicolon)) : k \in 1..Len(parsed_events) } :
        t # <<>> }

\* C4: the unique-email count main prints is the number of distinct non-empty
\* tokens of the rows' all_extracted_emails split on "; ", the empty string not
\* being counted; the same for the unique-phone count and extracted_phone_numbers.
C4_UniqueCounts ==
    Parsed =>
        /\ Cardinality(all_emails) = Cardinality(DistinctTokens("all_extracted_emails"))
        /\ Cardinality(all_phones) = Cardinality(DistinctTokens("extracted_phone_numbers"))

\* the days argument is missing or invalid: absent, no integer, zero or negative
DaysInvalid ==
    IF "days" \notin DOMAIN argv THEN TRUE
    ELSE IF ~IntReadable(argv.days) THEN TRUE
    ELSE IntOf(argv.days) <= 0

\* C5: a run ends with exit code 0 or 1: 0 exactly when help was requested, no
\* event was fetched or the export completed, and 1 when the days argument is
\* missing or invalid or a step failed.
C5_ExitCodes ==
    pc = "exit" =>
        /\ exit_code.value \in {0, 1}
        /\ exit_code.value = 0 <=> (argv.help \/ message \in {"no_events", "done"})
        /\ (~argv.help /\ DaysInvalid) => exit_code.value = 1

\* the rows in descending start_date order, those without a date last, rows
\* of equal start_date in their original order
StableOrder(rows) ==
    CHOOSE p \in SortOrders(rows) :
        \A i, j \in 1..Len(rows) :
            (i < j /\ rows[p[i]].start_date = rows[p[j]].start_date) => p[i] < p[j]

\* C6: the rows are written in descending start_date order, the rows without a
\* start_date after all others, and rows of equal start_date in fetch order.
C6_StableDescending ==
    (pc = "exit" /\ message = "done") =>
        file.rows = [k \in 1..Len(parsed_events) |->
                        parsed_events[StableOrder(parsed_events)[k]].event_id]

\* C10: the output file is written only after the arguments were valid, a
\* service was returned, at least one event was fetched and every event was
\* parsed; a run that fails leaves no output, and an output holds every event.
C10_AllOrNothing ==
    /\ pc \in {"open_writer", "to_excel", "style", "close_writer"} =>
          /\ ~argv.help /\ ~DaysInvalid
          /\ ~IsNone(service)
          /\ events # <<>>
          /\ Len(parsed_events) = Len(events)
    /\ (pc = "exit" /\ exit_code.value # 0) => IsNone(file)
    /\ ~IsNone(file) => (file.cells = "all" /\ Len(file.rows) = Len(events))

\* the row of an event that has nothing but an id, the three fields with a
\* default of their own being given
OnlyIdRow(id, visibility, transparency, reminders) ==
    [ event_id |-> id, summary |-> <<>>, description |-> <<>>, location |-> <<>>,
      start_date |-> None, start_time |-> None, end_date |-> None, end_time |-> None,
      all_day |-> FALSE, duration_hours |-> None, status |-> <<>>,
      visibility |-> visibility, organizer_email |-> <<>>, organizer_name |-> <<>>,
      creator_email |-> <<>>, creator_name |-> <<>>, attendee_emails |-> <<>>,
      attendee_names |-> <<>>, attendee_statuses |-> <<>>, attendee_count |-> 0,
      all_extracted_emails |-> <<>>, extracted_phone_numbers |-> <<>>,
      recurring_event_id |-> <<>>, is_recurring |-> FALSE, html_link |-> <<>>,
      conference_type |-> <<>>, meeting_links |-> <<>>, created |-> <<>>,
      updated |-> <<>>, reminders |-> reminders, attachments |-> <<>>,
      color_id |-> <<>>, transparency |-> transparency ]

\* C8 as stated: the row of an event with only an id has its event_id, all_day
\* false, no dates, times or duration, no attendee, is not recurring, and every
\* other string field empty.
C8_OnlyIdAllEmpty ==
    \A k \in 1..Len(parsed_events) :
        DOMAIN events[k] = {"id"} =>
            parsed_events[k] = OnlyIdRow(events[k].id, <<>>, <<>>, <<>>)

\* C8, amended: the same, except that visibility is 'default', transparency is
\* 'opaque' and reminders is '{}'.
C8_OnlyIdDefaults ==
    \A k \in 1..Len(parsed_events) :
        DOMAIN events[k] = {"id"} =>
            parsed_events[k] = OnlyIdRow(events[k].id, <<"d", "e", "f", "a", "u", "l", "t">>, <<"o", "p", "a", "q", "u", "e">>, <<"{", "}">>)

\* an event with only an id has been given its row
C8_Witness ==
    \E k \in 1..Len(parsed_events) : DOMAIN events[k] = {"id"}

\* the bounds of event k parse: as date-times when the start holds a 'T', as
\* calendar dates otherwise
BoundsParse(k) ==
    LET s == bound_string(events[k], "start")
        e == bound_string(events[k], "end")
    IN  IF "T" \in Elems(s)
        THEN /\ ~IsException(fromisoformat(Replace(s, "Z", <<"+", "0", "0", ":", "0", "0">>)))
             /\ ~IsException(fromisoformat(Replace(e, "Z", <<"+", "0", "0", ":", "0", "0">>)))
        ELSE ~IsException(strptime(s)) /\ ~IsException(strptime(e))

\* the seconds from the start to the end of event k, both bounds parsing
BoundsSeconds(k) ==
    LET s == bound_string(events[k], "start")
        e == bound_string(events[k], "end")
    IN  IF "T" \in Elems(s)
        THEN total_seconds(fromisoformat(Replace(e, "Z", <<"+", "0", "0", ":", "0", "0">>)),
                           fromisoformat(Replace(s, "Z", <<"+", "0", "0", ":", "0", "0">>))).value
        ELSE total_seconds(strptime(e), strptime(s)).value

\* C9: in every row, all_day is true exactly when the start holds no 'T' and
\* both bounds parsed as dates; start_date and end_date are both null or both
\* not; the times are there exactly when the bounds parsed and the event is not
\* all-day; the duration is there exactly when the bounds parsed, and is the
\* hours from start to end, negative ones included.
C9_RowTimes ==
    \A k \in 1..Len(parsed_events) :
        LET row == parsed_events[k]
            hasT == "T" \in Elems(bound_string(events[k], "start"))
            parse == BoundsParse(k)
        IN  /\ row.all_day = (~hasT /\ parse)
            /\ IsNone(row.start_date) = ~parse
            /\ IsNone(row.end_date) = ~parse
            /\ ~IsNone(row.start_time) = (parse /\ ~row.all_day)
            /\ ~IsNone(row.end_time) = (parse /\ ~row.all_day)
            /\ ~IsNone(row.duration_hours) = parse
            /\ parse =>
                  /\ row.duration_hours.num = BoundsSeconds(k)
                  /\ row.duration_hours.den = 3600

\* an all-day row of 24 hours, and a timed row whose end precedes its start by
\* an hour and a half
C9_Witness ==
    /\ Len(parsed_events) = 2
    /\ parsed_events[1].all_day
    /\ parsed_events[1].duration_hours = Hours(86400)
    /\ ~parsed_events[2].all_day
    /\ parsed_events[2].duration_hours = Hours(0 - 5400)
    /\ ~IsNone(parsed_events[2].start_time)

====
